---- MODULE Spec2Model ----
(***************************************************************************)
(* Model of the Alexa smart-home adapter for Domoticz.                     *)
(*                                                                         *)
(*   src/AlexaSmartHome.py   capability model, envelope builder, router    *)
(*   src/DomoticzHandler.py  Domoticz endpoints and the Domoticz handler   *)
(*                                                                         *)
(* One directive is handled at a time (HandleMessage), its response is     *)
(* handed back (Deliver), and the only state that survives a directive is  *)
(* the handler's device cache and configuration, and the backend itself.   *)
(*                                                                         *)
(* Python values are modelled as follows.  A dict is a TLA+ function with  *)
(* a string domain, so an optional key is a key that may be missing from   *)
(* the DOMAIN; {} is <<>>.  None is the record PyNone.  Where one slot can *)
(* hold an int, a str or None (a property value), the value is tagged:     *)
(* [int |-> n], [str |-> s].  An endpoint id "SwitchLight-1" is the        *)
(* sequence of its dash-free segments <<"SwitchLight", "1">>.  A           *)
(* pipe-delimited LevelNames string is the sequence of its names.          *)
(* timeOfSample and messageId (clock, uuid4) are left out of the           *)
(* envelopes: no operation reads them back.                                *)
(***************************************************************************)
EXTENDS Integers, Sequences, FiniteSets, TLC

VARIABLES
    devices,      \* Domoticz.devices: the device cache, idx -> record
    config,       \* Domoticz.config
    backend,      \* the Domoticz server: its devices and its scenes
    pc,           \* "idle": waiting for a directive; "done": response ready
    request,      \* the directive being handled (message['directive'])
    response,     \* what handle_message returned for it
    calls,        \* the backend queries issued while handling it
    up,           \* whether the backend answered during this directive
    before,       \* the device cache when the directive arrived
    enumerated,   \* the endpoints getEndpoints returned while handling it
    nDirectives   \* number of directives handled so far

vars == <<devices, config, backend, pc, request, response, calls, up,
          before, enumerated, nDirectives>>

(***************************************************************************)
(* Bounds.                                                                 *)
(***************************************************************************)
MaxDirectives == 2

(***************************************************************************)
(* Python helpers.                                                         *)
(***************************************************************************)
PyNone == [none |-> TRUE]

IsNone(v) == "none" \in DOMAIN v

PyInt(n) == [int |-> n]

PyStr(s) == [str |-> s]

\* dict.get(k, default)
Get(d, k, default) == IF k \in DOMAIN d THEN d[k] ELSE default

\* d[k] = v
Put(d, k, v) == [x \in DOMAIN d \cup {k} |-> IF x = k THEN v ELSE d[x]]

\* dict.update(other)
Update(d, other) ==
    [x \in DOMAIN d \cup DOMAIN other |-> IF x \in DOMAIN other THEN other[x] ELSE d[x]]

\* truthiness of a dict or None
Truthy(d) == ~IsNone(d) /\ DOMAIN d # {}

Max(a, b) == IF a >= b THEN a ELSE b

Min(a, b) == IF a <= b THEN a ELSE b

\* str.upper() on the mode and level names that occur
Upper(s) ==
    CASE s \in {"heat", "Heat", "HEAT"} -> "HEAT"
      [] s \in {"cool", "Cool", "COOL"} -> "COOL"
      [] s \in {"off", "Off", "OFF"}    -> "OFF"
      [] s \in {"auto", "Auto", "AUTO"} -> "AUTO"
      [] s \in {"eco", "Eco", "ECO"}    -> "ECO"
      [] OTHER -> s

\* "-".join(parts)
RECURSIVE JoinDash(_)
JoinDash(parts) ==
    IF Len(parts) = 0 THEN ""
    ELSE IF Len(parts) = 1 THEN parts[1]
    ELSE parts[1] \o "-" \o JoinDash(Tail(parts))

\* list.index(x): 0-based position of the first x, or -1 for ValueError
IndexOf(seq, x) ==
    IF \E i \in 1..Len(seq) : seq[i] = x
    THEN (CHOOSE i \in 1..Len(seq) : seq[i] = x /\ \A j \in 1..(i-1) : seq[j] # x) - 1
    ELSE -1

\* v bound to a local name: K is the code that follows the assignment
Bind(v, K(_)) == K(v)

\* outcome of a call: it raised, or it returned ret; w is the world after it
Raise(w) == [raised |-> TRUE, w |-> w]

Return(v, w) == [raised |-> FALSE, ret |-> v, w |-> w]

\* a call made outside any try block: its exception propagates, otherwise
\* K is the code that follows it
Try(r, K(_)) == IF r.raised THEN r ELSE K(r)

(***************************************************************************)
(* The Domoticz server (external collaborator), by the HTTP contract the   *)
(* handler consumes: device and scene records keyed by idx.  Scenes and    *)
(* devices are numbered independently, so scene 1 and device 1 coexist.    *)
(***************************************************************************)
IdxOrder == <<"1", "2", "3", "4", "5">>

InitBackend ==
    [devices |->
        [i \in {"1", "2", "3", "4"} |->
            CASE i = "1" -> [idx |-> "1", Name |-> "Lamp", Type |-> "Color Switch",
                             SubType |-> "RGBW", Status |-> "Off", Level |-> 0]
              [] i = "2" -> [idx |-> "2", Name |-> "Shade", Type |-> "RFY",
                             SubType |-> "RFY", Status |-> "Open", Level |-> 40]
              [] i = "3" -> [idx |-> "3", Name |-> "Heating", Type |-> "Thermostat",
                             SubType |-> "SetPoint", Status |-> "Set Level: 10 %",
                             Level |-> 10, LevelInt |-> 10,
                             LevelNames |-> <<"OFF", "HEAT", "COOL">>,
                             SetPoint |-> 2000]
              [] i = "4" -> [idx |-> "4", Name |-> "Porch", Type |-> "Temp",
                             SubType |-> "LaCrosse TX3", Temp |-> 2100]],
     scenes |->
        [i \in {"1", "5"} |->
            CASE i = "1" -> [idx |-> "1", Name |-> "Evening", Type |-> "Scene",
                             Status |-> "Off"]
              [] i = "5" -> [idx |-> "5", Name |-> "Morning", Type |-> "Scene",
                             Status |-> "Off"]]]

\* the records of table f, in idx order
RecordsOf(f) ==
    LET keys == SelectSeq(IdxOrder, LAMBDA i : i \in DOMAIN f)
    IN  [n \in 1..Len(keys) |-> f[keys[n]]]

SetLevelStatus(l) == "Set Level: " \o ToString(l) \o " %"

\* what the server answers to a query
BackendReply(b, q) ==
    CASE q.param = "getdevices" /\ "rid" \in DOMAIN q ->
            IF q.rid \in DOMAIN b.devices
            THEN [status |-> "OK", result |-> <<b.devices[q.rid]>>]
            ELSE [status |-> "OK"]
      [] q.param = "getdevices" /\ "rid" \notin DOMAIN q ->
            [status |-> "OK", result |-> RecordsOf(b.devices)]
      [] q.param = "getscenes" ->
            [status |-> "OK", result |-> RecordsOf(b.scenes)]
      [] OTHER -> [status |-> "OK"]

\* what a command does to the server
BackendApply(b, q) ==
    CASE q.param = "switchlight" /\ q.idx \in DOMAIN b.devices ->
            IF "level" \in DOMAIN q
            THEN LET l == Max(0, Min(100, q.level))
                 IN  [b EXCEPT !.devices[q.idx] =
                        Update(@, [Level |-> l,
                                   Status |-> IF l = 0 THEN "Off" ELSE SetLevelStatus(l)])]
            ELSE [b EXCEPT !.devices[q.idx] = Update(@, [Status |-> q.switchcmd])]
      [] q.param = "switchscene" /\ q.idx \in DOMAIN b.scenes ->
            [b EXCEPT !.scenes[q.idx] = Update(@, [Status |-> q.switchcmd])]
      [] q.param = "setsetpoint" /\ q.idx \in DOMAIN b.devices ->
            [b EXCEPT !.devices[q.idx] = Update(@, [SetPoint |-> q.setpoint])]
      [] OTHER -> b

(***************************************************************************)
(* Capability model (AlexaSmartHome.py).  A capability is [name |-> ...],  *)
(* plus modesSupported on the thermostat capability once it has been set.  *)
(***************************************************************************)
AlexaInterface(name) == [name |-> name]

\* propertiesSupported() of each capability class; the base class returns
\* its constructor's default, the empty list
propertiesSupported(cap) ==
    CASE cap.name = "Alexa.PowerController"            -> <<[name |-> "powerState"]>>
      [] cap.name = "Alexa.LockController"             -> <<[name |-> "lockState"]>>
      [] cap.name = "Alexa.BrightnessController"       -> <<[name |-> "brightness"]>>
      [] cap.name = "Alexa.ColorController"            -> <<[name |-> "color"]>>
      [] cap.name = "Alexa.ColorTemperatureController" -> <<[name |-> "colorTemperatureInKelvin"]>>
      [] cap.name = "Alexa.PercentageController"       -> <<[name |-> "percentage"]>>
      [] cap.name = "Alexa.TemperatureSensor"          -> <<[name |-> "temperature"]>>
      [] cap.name = "Alexa.ThermostatController"       ->
            <<[name |-> "targetSetpoint"], [name |-> "thermostatMode"]>>
      [] cap.name = "Alexa.ContactSensor"              -> <<[name |-> "detectionState"]>>
      [] OTHER -> <<>>

\* AlexaThermostatController.configuration(); None for every other class
configuration(cap) ==
    IF cap.name = "Alexa.ThermostatController" /\ "modesSupported" \in DOMAIN cap
    THEN [supportsScheduling |-> FALSE, supportedModes |-> cap.modesSupported]
    ELSE PyNone

serializeDiscovery(cap) ==
    IF cap.name = "Alexa.SceneController"
    THEN [type |-> "AlexaInterface", interface |-> cap.name, version |-> "3",
          supportsDeactivation |-> PyNone]
    ELSE LET base  == [type |-> "AlexaInterface", interface |-> cap.name, version |-> "3"]
             props == propertiesSupported(cap)
             r1    == IF Len(props) > 0
                      THEN Put(base, "properties",
                               [supported |-> props, proactivelyReported |-> TRUE,
                                retrievable |-> TRUE])
                      ELSE base
         IN  IF ~IsNone(configuration(cap))
             THEN Put(r1, "configuration", configuration(cap))
             ELSE r1

(***************************************************************************)
(* Endpoints.  An endpoint object is a record; class names the Python      *)
(* class, and _device and handlerSet are DomoticzEndpoint's fields.        *)
(***************************************************************************)
AlexaEndpoint(endpointId, friendlyName, description, manufacturerName) ==
    [class |-> "AlexaEndpoint", endpointId |-> endpointId,
     friendlyName |-> friendlyName, description |-> description,
     manufacturerName |-> manufacturerName,
     capabilities |-> <<AlexaInterface("Alexa")>>,
     displayCategories |-> <<>>]

addCapability(ep, interface) ==
    [ep EXCEPT !.capabilities = Append(@, interface)]

addDisplayCategories(ep, category) ==
    [ep EXCEPT !.displayCategories = Append(@, category)]

DomoticzEndpoint(endpointId, friendlyName, description, manufacturerName) ==
    Update(AlexaEndpoint(endpointId, friendlyName, description, manufacturerName),
           [class |-> "DomoticzEndpoint", handlerSet |-> FALSE, _device |-> PyNone])

\* SwitchLightEndpoint adding the power capability twice
SwitchLightEndpoint_PowerTwice(endpointId, friendlyName, description, manufacturerName) ==
    [addCapability(
        addCapability(
        DomoticzEndpoint(endpointId, friendlyName, description, manufacturerName),
        AlexaInterface("Alexa.PowerController")),
        AlexaInterface("Alexa.PowerController"))
     EXCEPT !.class = "SwitchLight"]

SwitchLightEndpoint(endpointId, friendlyName, description, manufacturerName) ==
    [addCapability(
        addCapability(
        DomoticzEndpoint(endpointId, friendlyName, description, manufacturerName),
        AlexaInterface("Alexa.PowerController")),
        AlexaInterface("Alexa.BrightnessController"))
     EXCEPT !.class = "SwitchLight"]

BlindEndpoint(endpointId, friendlyName, description, manufacturerName) ==
    [addCapability(
        addCapability(
        DomoticzEndpoint(endpointId, friendlyName, description, manufacturerName),
        AlexaInterface("Alexa.PowerController")),
        AlexaInterface("Alexa.PercentageController"))
     EXCEPT !.class = "Blind"]

TemperatureSensorEndpoint(endpointId, friendlyName, description, manufacturerName) ==
    [addDisplayCategories(
        addCapability(
        DomoticzEndpoint(endpointId, friendlyName, description, manufacturerName),
        AlexaInterface("Alexa.TemperatureSensor")),
        "TEMPERATURE_SENSOR")
     EXCEPT !.class = "TemperatureSensor"]

ThermostatEndpoint(endpointId, friendlyName, description, manufacturerName) ==
    [addDisplayCategories(
        addCapability(
        addCapability(
        DomoticzEndpoint(endpointId, friendlyName, description, manufacturerName),
        AlexaInterface("Alexa.TemperatureSensor")),
        Put(AlexaInterface("Alexa.ThermostatController"), "modesSupported",
            <<"HEAT", "COOL", "AUTO", "OFF">>)),
        "THERMOSTAT")
     EXCEPT !.class = "Thermostat"]

SceneEndpoint(endpointId, friendlyName, description, manufacturerName) ==
    [addDisplayCategories(
        addCapability(
        DomoticzEndpoint(endpointId, friendlyName, description, manufacturerName),
        AlexaInterface("Alexa.SceneController")),
        "SCENE")
     EXCEPT !.class = "Scene"]

\* the registry of endpoint classes, keyed by endpoint-id prefix
ENDPOINT_ADAPTERS == {"SwitchLight", "Blind", "TemperatureSensor", "Thermostat", "Scene"}

\* ENDPOINT_ADAPTERS[prefix](endpointId, friendlyName, description, manufacturerName)
NewEndpoint(prefix, endpointId, friendlyName, description, manufacturerName) ==
    CASE prefix = "SwitchLight" ->
            SwitchLightEndpoint(endpointId, friendlyName, description, manufacturerName)
      [] prefix = "Blind" ->
            BlindEndpoint(endpointId, friendlyName, description, manufacturerName)
      [] prefix = "TemperatureSensor" ->
            TemperatureSensorEndpoint(endpointId, friendlyName, description, manufacturerName)
      [] prefix = "Thermostat" ->
            ThermostatEndpoint(endpointId, friendlyName, description, manufacturerName)
      [] prefix = "Scene" ->
            SceneEndpoint(endpointId, friendlyName, description, manufacturerName)

\* the methods each endpoint class defines besides the inherited ones
EndpointMethods(class) ==
    CASE class = "SwitchLight" ->
            {"turnOn", "turnOff", "setBrightness", "setColor", "setColorTemperature"}
      [] class = "Blind"      -> {"turnOn", "turnOff", "setPercentage"}
      [] class = "Thermostat" -> {"setTargetSetPoint", "setThermostatMode"}
      [] class = "Scene"      -> {"activate", "deactivate"}
      [] OTHER -> {}

(***************************************************************************)
(* Envelope builder.                                                       *)
(***************************************************************************)
\* api_message without the correlation-token step
api_message_NoToken(req, name, namespace, payload, context) ==
    LET pl     == IF Truthy(payload) THEN payload ELSE <<>>
        header == [namespace |-> namespace, name |-> name, payloadVersion |-> "3"]
        ev0    == [header |-> header, payload |-> pl]
        ev     == IF "endpoint" \in DOMAIN req
                  THEN Put(ev0, "endpoint", req.endpoint)
                  ELSE ev0
        r0     == [event |-> ev]
    IN  IF ~IsNone(context) THEN Put(r0, "context", context) ELSE r0

\* api_message(request, name, namespace, payload, context);
\* PyNone stands for an argument left at its default None
api_message(req, name, namespace, payload, context) ==
    LET pl     == IF Truthy(payload) THEN payload ELSE <<>>
        header == [namespace |-> namespace, name |-> name, payloadVersion |-> "3"]
        \* token = request[API_HEADER].get('correlationToken'); if token:
        hdr    == IF "correlationToken" \in DOMAIN req.header
                     /\ req.header.correlationToken # ""
                  THEN Put(header, "correlationToken", req.header.correlationToken)
                  ELSE header
        ev0    == [header |-> hdr, payload |-> pl]
        ev     == IF "endpoint" \in DOMAIN req
                  THEN Put(ev0, "endpoint", req.endpoint)
                  ELSE ev0
        r0     == [event |-> ev]
    IN  IF ~IsNone(context) THEN Put(r0, "context", context) ELSE r0

\* api_error(request, namespace='Alexa', error_type, error_message, payload=None)
api_error(req, error_type, error_message) ==
    api_message(req, "ErrorResponse", "Alexa",
                [type |-> error_type, message |-> error_message], PyNone)

\* one property reading, as the handlers build it
Reading(name, namespace, value) ==
    [name |-> name, namespace |-> namespace, value |-> value,
     uncertaintyInMilliseconds |-> 0]

(***************************************************************************)
(* The Domoticz handler (DomoticzHandler.py).  A world w is the handler's  *)
(* cache and configuration, the server, the log of queries issued, and    *)
(* the endpoints getEndpoints last returned:                               *)
(* [devices, config, backend, calls, eps].  ok says whether the server     *)
(* answers the HTTP calls of this directive.                               *)
(***************************************************************************)

\* Domoticz.api(query): the decoded answer, or {} when the call fails
api(w, query, ok) ==
    [res |-> IF ok THEN BackendReply(w.backend, query) ELSE <<>>,
     w   |-> [w EXCEPT !.calls   = Append(@, query),
                       !.backend = IF ok THEN BackendApply(@, query) ELSE @]]

\* {str(d['idx']): d for d in records}, on top of base
RECURSIVE DictFromRecords(_, _)
DictFromRecords(base, records) ==
    IF Len(records) = 0 THEN base
    ELSE DictFromRecords(Put(base, Head(records).idx, Head(records)), Tail(records))

\* getattr(self.config, 'includeScenesGroups', False), guarded by self.config
includeScenesGroups(cfg) ==
    Truthy(cfg) /\ "obj" \in DOMAIN cfg /\ cfg.includeScenesGroups

loadDevices(w, ok) ==
    Bind(api(w, [param |-> "getdevices", filter |-> "all", used |-> "true"], ok), LAMBDA a1 :
    Bind(DictFromRecords(<<>>, Get(a1.res, "result", <<>>)), LAMBDA d1 :
        IF includeScenesGroups(w.config)
        THEN Bind(api([a1.w EXCEPT !.devices = d1], [param |-> "getscenes"], ok), LAMBDA a2 :
                [a2.w EXCEPT !.devices = DictFromRecords(d1, Get(a2.res, "result", <<>>))])
        ELSE [a1.w EXCEPT !.devices = d1]))

getEndpoint(w, req) ==
    IF "endpoint" \notin DOMAIN req THEN Raise(w)                 \* KeyError
    ELSE IF "endpointId" \notin DOMAIN req.endpoint THEN Raise(w) \* KeyError
    ELSE
    LET endpointId == req.endpoint.endpointId
    IN  IF Len(endpointId) < 2 THEN Raise(w)                      \* ValueError
        ELSE
        LET prefix == endpointId[1]
            idx    == JoinDash(Tail(endpointId))
            device == Get(w.devices, idx, PyNone)
        IN  IF prefix \notin ENDPOINT_ADAPTERS THEN Raise(w)      \* Unknown endpoint type
            ELSE
            Bind(Update(NewEndpoint(prefix, endpointId,
                                    Get(req.endpoint, "friendlyName", ""), "", "Domoticz"),
                        [idx |-> idx, handlerSet |-> TRUE]), LAMBDA e1 :
                Return(IF Truthy(device) THEN [e1 EXCEPT !._device = device] ELSE e1, w))

\* Domoticz.getDevice(endpointId): [dev |-> record or None, w |-> world after]
Domoticz_getDevice(w, endpointId, ok) ==
    LET idx    == endpointId[Len(endpointId)]
        prefix == endpointId[1]
    IN  IF idx \in DOMAIN w.devices
        THEN [dev |-> w.devices[idx], w |-> w]
        ELSE
        Bind(IF prefix = "Scene"
             THEN Bind(api(w, [param |-> "getscenes"], ok), LAMBDA a :
                      [a.w EXCEPT !.devices =
                          DictFromRecords(@, Get(a.res, "result", <<>>))])
             ELSE Bind(api(w, [param |-> "getdevices", rid |-> idx], ok), LAMBDA a :
                      IF Len(Get(a.res, "result", <<>>)) > 0
                      THEN [a.w EXCEPT !.devices = Put(@, idx, a.res.result[1])]
                      ELSE a.w),
             LAMBDA w1 : [dev |-> Get(w1.devices, idx, PyNone), w |-> w1])

\* substring tests on the device type strings the server uses
Contains(s, sub) ==
    CASE sub = "Temp"       -> s \in {"Temp", "Temp + Humidity", "Temp + Humidity + Baro"}
      [] sub = "Thermostat" -> s \in {"Thermostat"}
      [] sub = "Blind"      -> s \in {"Blinds"}
      [] sub = "RFY"        -> s \in {"RFY"}
      [] sub = "Color"      -> s \in {"Color Switch"}
      [] sub = "RGB"        -> s \in {"RGB", "RGBW", "RGBWW", "RGBWZ", "RGBWWZ"}
      [] OTHER -> FALSE

\* the endpoint getEndpoints builds for the cached record d under key idx
EndpointFor(idx, d) ==
    LET name    == Get(d, "Name", "Device " \o idx)
        devType == Get(d, "Type", "")
        subType == Get(d, "SubType", "")
    IN  Update(
          IF devType \in {"Scene", "Group"}
          THEN SceneEndpoint(<<"Scene", idx>>, name, devType, "Domoticz")
          ELSE IF Contains(devType, "Temp")
          THEN TemperatureSensorEndpoint(<<"TemperatureSensor", idx>>, name, devType, "Domoticz")
          ELSE IF Contains(devType, "Thermostat")
          THEN ThermostatEndpoint(<<"Thermostat", idx>>, name, devType, "Domoticz")
          ELSE IF Contains(devType, "Blind") \/ Contains(devType, "RFY")
          THEN BlindEndpoint(<<"Blind", idx>>, name, devType, "Domoticz")
          ELSE Bind(SwitchLightEndpoint(<<"SwitchLight", idx>>, name, devType, "Domoticz"),
                    LAMBDA s0 :
                 addDisplayCategories(
                    IF Contains(subType, "RGB") \/ Contains(devType, "Color")
                    THEN addCapability(
                           addCapability(s0, AlexaInterface("Alexa.ColorController")),
                           AlexaInterface("Alexa.ColorTemperatureController"))
                    ELSE s0,
                    "LIGHT")),
          [idx |-> idx, handlerSet |-> TRUE])

\* Domoticz.getEndpoints(): [eps |-> sequence of endpoints, w |-> world after]
getEndpoints(w, ok) ==
    Bind(loadDevices(w, ok), LAMBDA w1 :
    Bind(RecordsOf(w1.devices), LAMBDA recs :
    Bind([n \in 1..Len(recs) |-> EndpointFor(recs[n].idx, recs[n])], LAMBDA eps :
        [eps |-> eps, w |-> [w1 EXCEPT !.eps = eps]])))

setSwitch(w, idx, cmd, ok) ==
    api(w, [param |-> "switchlight", idx |-> idx, switchcmd |-> cmd], ok).w

setLevel(w, idx, level, ok) ==
    api(w, [param |-> "switchlight", idx |-> idx, switchcmd |-> "Set Level",
            level |-> level], ok).w

setSetpoint(w, idx, value, ok) ==
    api(w, [param |-> "setsetpoint", idx |-> idx, setpoint |-> value], ok).w

setScene(w, idx, cmd, ok) ==
    api(w, [param |-> "switchscene", idx |-> idx, switchcmd |-> cmd], ok).w

setLevelByName(w, idx, name, ok) ==
    LET d == Get(w.devices, idx, PyNone)
    IN  IF IsNone(d) THEN Raise(w)                       \* None.get: AttributeError
        ELSE
        LET names == Get(d, "LevelNames", <<"">>)
        IN  IF \E i \in 1..Len(names) : Upper(names[i]) = Upper(name)
            THEN IF IndexOf(names, Upper(name)) < 0 THEN Raise(w)   \* ValueError
                 ELSE Return(PyNone,
                        setLevel(w, idx, IndexOf(names, Upper(name)) * Get(d, "LevelInt", 10), ok))
            ELSE Return(PyNone, w)

(***************************************************************************)
(* Endpoint methods.                                                       *)
(***************************************************************************)

\* DomoticzEndpoint.getDevice(): [dev, ep, w]; the endpoint remembers the record
DomoticzEndpoint_getDevice(ep, w, ok) ==
    IF ~Truthy(ep._device) /\ ep.handlerSet
    THEN Bind(Domoticz_getDevice(w, ep.endpointId, ok), LAMBDA g :
            [dev |-> g.dev, ep |-> [ep EXCEPT !._device = g.dev], w |-> g.w])
    ELSE [dev |-> ep._device, ep |-> ep, w |-> w]

\* status.startswith('Set Level')
StartsWithSetLevel(status) == \E l \in 0..100 : status = SetLevelStatus(l)

\* the decoding DomoticzEndpoint.getProperty applies to a device record d
PropertyOf(d, name) ==
    CASE name = "powerState" ->
            LET status == Get(d, "Status", "Off")
            IN  IF status \in {"On", "Open"} \/ StartsWithSetLevel(status)
                THEN PyStr("ON") ELSE PyStr("OFF")
      [] name = "color" ->
            \* no record of this model carries a Color key: json.loads('{}')
            \* gives r = g = b = 0, and rgb_to_hsv(0, 0, 0) is (0, 0, 0)
            [hue |-> 0, saturation |-> 0, brightness |-> 0]
      [] name \in {"brightness", "percentage"} ->
            PyInt(Get(d, "Level", 0))
      [] name = "temperature" ->
            IF "Temp" \notin DOMAIN d THEN PyNone
            ELSE [value |-> d.Temp, scale |-> "CELSIUS"]
      [] name = "targetSetpoint" ->
            IF "SetPoint" \notin DOMAIN d THEN PyNone
            ELSE [value |-> d.SetPoint, scale |-> "CELSIUS"]
      [] name = "thermostatMode" ->
            LET names == Get(d, "LevelNames", <<"">>)
                step  == Get(d, "LevelInt", 10)
            IN  IF step = 0 THEN PyStr("AUTO")               \* ZeroDivisionError
                ELSE LET i == Get(d, "Level", 0) \div step
                     IN  IF i + 1 \in 1..Len(names) THEN PyStr(Upper(names[i + 1]))
                         ELSE PyStr("AUTO")                  \* IndexError
      [] name = "detectionState" ->
            IF Get(d, "Status", "") = "Open" THEN PyStr("DETECTED")
            ELSE PyStr("NOT_DETECTED")
      [] OTHER -> PyNone

\* endpoint.getProperty(name): [value, ep, w]; AlexaEndpoint's own
\* getProperty returns None
getProperty(ep, name, w, ok) ==
    IF ep.class = "AlexaEndpoint" THEN [value |-> PyNone, ep |-> ep, w |-> w]
    ELSE Bind(DomoticzEndpoint_getDevice(ep, w, ok), LAMBDA g :
            [value |-> IF ~Truthy(g.dev) THEN PyNone ELSE PropertyOf(g.dev, name),
             ep |-> g.ep, w |-> g.w])

\* turnOn letting a failed backend call raise
turnOn_RaisesOnFailure(ep, w, ok) ==
    IF "turnOn" \notin EndpointMethods(ep.class) \/ ~ok
    THEN Raise(setSwitch(w, ep.idx, IF ep.class = "Blind" THEN "Off" ELSE "On", ok))
    ELSE Return(PyNone, setSwitch(w, ep.idx, IF ep.class = "Blind" THEN "Off" ELSE "On", ok))

\* a method the endpoint's class lacks raises AttributeError
turnOn(ep, w, ok) ==
    IF "turnOn" \notin EndpointMethods(ep.class) THEN Raise(w)
    ELSE Return(PyNone, setSwitch(w, ep.idx, IF ep.class = "Blind" THEN "Off" ELSE "On", ok))

turnOff(ep, w, ok) ==
    IF "turnOff" \notin EndpointMethods(ep.class) THEN Raise(w)
    ELSE Return(PyNone, setSwitch(w, ep.idx, IF ep.class = "Blind" THEN "On" ELSE "Off", ok))

setBrightness(ep, value, w, ok) ==
    IF "setBrightness" \notin EndpointMethods(ep.class) THEN Raise(w)
    ELSE Return(PyNone, setLevel(w, ep.idx, value, ok))

setPercentage(ep, value, w, ok) ==
    IF "setPercentage" \notin EndpointMethods(ep.class) THEN Raise(w)
    ELSE Return(PyNone, setLevel(w, ep.idx, value, ok))

setTargetSetPoint(ep, value, w, ok) ==
    IF "setTargetSetPoint" \notin EndpointMethods(ep.class) THEN Raise(w)
    ELSE Return(PyNone, setSetpoint(w, ep.idx, value, ok))

setThermostatMode(ep, mode, w, ok) ==
    IF "setThermostatMode" \notin EndpointMethods(ep.class) THEN Raise(w)
    ELSE setLevelByName(w, ep.idx, mode, ok)

activate(ep, w, ok) ==
    IF "activate" \notin EndpointMethods(ep.class) THEN Raise(w)
    ELSE Return(PyNone, setScene(w, ep.idx, "On", ok))

deactivate(ep, w, ok) ==
    IF "deactivate" \notin EndpointMethods(ep.class) THEN Raise(w)
    ELSE Return(PyNone, setScene(w, ep.idx, "Off", ok))

\* colorsys.hsv_to_rgb(h/360.0, s, b/100.0) followed by int(x*255), with the
\* hue h in degrees and s, b in hundredths
HsvToRgb255(h, s, b) ==
    LET i  == (h \div 60) % 6
        fm == h % 60
        v  == (255 * b) \div 10000
        p  == (255 * b * (100 - s)) \div 1000000
        q  == (255 * b * (6000 - s * fm)) \div 60000000
        t  == (255 * b * (6000 - s * (60 - fm))) \div 60000000
    IN  IF s = 0 THEN <<v, v, v>>
        ELSE CASE i = 0 -> <<v, t, p>>
               [] i = 1 -> <<q, v, p>>
               [] i = 2 -> <<p, v, t>>
               [] i = 3 -> <<p, q, v>>
               [] i = 4 -> <<t, p, v>>
               [] i = 5 -> <<v, p, q>>

setColor(ep, h, s, b, w, ok) ==
    IF "setColor" \notin EndpointMethods(ep.class) THEN Raise(w)
    ELSE Bind(HsvToRgb255(h, s, b), LAMBDA rgb :
            Return(PyNone,
                api(w, [param |-> "setcolbrightnessvalue", idx |-> ep.idx,
                        r |-> rgb[1], g |-> rgb[2], b |-> rgb[3], brightness |-> 100], ok).w))

\* Domoticz.setColorTemperature: int() truncates towards zero, then the clamp
setColorTemperature(ep, kelvin, w, ok) ==
    IF "setColorTemperature" \notin EndpointMethods(ep.class) THEN Raise(w)
    ELSE LET x     == (kelvin - 2000) * 100
             lvl   == IF x >= 0 THEN x \div 4500 ELSE -((-x) \div 4500)
             level == Max(0, Min(100, lvl))
         IN  Return(PyNone,
                api(w, [param |-> "setcolbrightnessvalue", idx |-> ep.idx,
                        color |-> [m |-> 3, t |-> level]], ok).w)

\* AlexaInterface.serializeProperties(): the readings of one capability
\* of an endpoint whose device record has been resolved
RECURSIVE SerializeProps(_, _, _, _, _)
SerializeProps(cap, props, ep, w, ok) ==
    IF Len(props) = 0 THEN <<>>
    ELSE Bind(getProperty(ep, Head(props).name, w, ok).value, LAMBDA prop_value :
            (IF ~IsNone(prop_value)
             THEN <<Reading(Head(props).name, cap.name, prop_value)>>
             ELSE <<>>)
            \o SerializeProps(cap, Tail(props), ep, w, ok))

\* serializeProperties without the "is not None" test
serializeProperties_Unfiltered(cap, ep, w, ok) ==
    LET props == propertiesSupported(cap)
    IN  [i \in 1..Len(props) |->
            Reading(props[i].name, cap.name, getProperty(ep, props[i].name, w, ok).value)]

serializeProperties(cap, ep, w, ok) ==
    SerializeProps(cap, propertiesSupported(cap), ep, w, ok)

(***************************************************************************)
(* Directive handlers (class Alexa).  Each takes the request, the world    *)
(* and ok, and returns Raise(w') or Return(envelope, w').                  *)
(***************************************************************************)
INTERNAL_MSG_REQUEST == "An unexpected error occurred while processing your request."

INTERNAL_MSG_DIRECTIVE == "An unexpected error occurred while processing your directive."

UNREACHABLE_MSG == "Could not connect to Domoticz"

\* the discovery view of the endpoints getEndpoints returned
DiscoveryEndpoints(eps) ==
    LET view(e) ==
            [endpointId |-> e.endpointId, friendlyName |-> e.friendlyName,
             description |-> e.description, manufacturerName |-> e.manufacturerName,
             displayCategories |-> e.displayCategories,
             additionalApplianceDetails |-> <<>>,
             capabilities |->
                [i \in 1..Len(e.capabilities) |-> serializeDiscovery(e.capabilities[i])]]
        all == [n \in 1..Len(eps) |-> view(eps[n])]
    IN  SelectSeq(all, LAMBDA d : Len(d.capabilities) # 0)

\* the body of Discover once handler.getEndpoints() has returned eps
DiscoverResponse(req, eps) ==
    api_message(req, "Discover.Response", "Alexa.Discovery",
                [endpoints |-> DiscoveryEndpoints(eps)], PyNone)

Discover(req, w, ok) ==
    LET g == getEndpoints(w, ok)
    IN  Return(DiscoverResponse(req, g.eps), g.w)

TurnOn(req, w, ok) ==
    Try(getEndpoint(w, req), LAMBDA e :
    Try(turnOn(e.ret, e.w, ok), LAMBDA m :
        Return(api_message(req, "Response", "Alexa", PyNone,
                 [properties |->
                     <<Reading("powerState", "Alexa.PowerController", PyStr("ON"))>>]),
               m.w)))

\* TurnOff reporting the state TurnOn reports
TurnOff_ReportsOn(req, w, ok) ==
    Try(getEndpoint(w, req), LAMBDA e :
    Try(turnOff(e.ret, e.w, ok), LAMBDA m :
        Return(api_message(req, "Response", "Alexa", PyNone,
                 [properties |->
                     <<Reading("powerState", "Alexa.PowerController", PyStr("ON"))>>]),
               m.w)))

TurnOff(req, w, ok) ==
    Try(getEndpoint(w, req), LAMBDA e :
    Try(turnOff(e.ret, e.w, ok), LAMBDA m :
        Return(api_message(req, "Response", "Alexa", PyNone,
                 [properties |->
                     <<Reading("powerState", "Alexa.PowerController", PyStr("OFF"))>>]),
               m.w)))

\* BrightnessController.setbrightness(request, endpoint, brightness)
setbrightness(req, ep, brightness, w, ok) ==
    Try(setBrightness(ep, brightness, w, ok), LAMBDA m :
        Return(api_message(req, "Response", "Alexa", PyNone,
                 [properties |->
                     <<Reading("brightness", "Alexa.BrightnessController", PyInt(brightness))>>]),
               m.w))

SetBrightness(req, w, ok) ==
    IF "brightness" \notin DOMAIN req.payload THEN Raise(w)        \* KeyError
    ELSE Try(getEndpoint(w, req), LAMBDA e :
            setbrightness(req, e.ret, req.payload.brightness, e.w, ok))

AdjustBrightness(req, w, ok) ==
    IF "brightnessDelta" \notin DOMAIN req.payload THEN Raise(w)   \* KeyError
    ELSE Try(getEndpoint(w, req), LAMBDA e :
         Bind(getProperty(e.ret, "brightness", e.w, ok), LAMBDA g :
            \* endpoint.getProperty('brightness') or 50
            LET current_brightness ==
                    IF IsNone(g.value) \/ g.value.int = 0 THEN 50 ELSE g.value.int
            IN  setbrightness(req, g.ep, current_brightness + req.payload.brightnessDelta,
                              g.w, ok)))

Activate(req, w, ok) ==
    Try(getEndpoint(w, req), LAMBDA e :
    Try(activate(e.ret, e.w, ok), LAMBDA m :
        Return(api_message(req, "ActivationStarted", "Alexa.SceneController",
                 [cause |-> [type |-> "VOICE_INTERACTION"]], PyNone), m.w)))

Deactivate(req, w, ok) ==
    Try(getEndpoint(w, req), LAMBDA e :
    Try(deactivate(e.ret, e.w, ok), LAMBDA m :
        Return(api_message(req, "DeactivationStarted", "Alexa.SceneController",
                 [cause |-> [type |-> "VOICE_INTERACTION"]], PyNone), m.w)))

\* SetPercentage without the clamp
SetPercentage_Unclamped(req, w, ok) ==
    IF "percentage" \notin DOMAIN req.payload THEN Raise(w)
    ELSE Try(getEndpoint(w, req), LAMBDA e :
         Bind(req.payload.percentage, LAMBDA percentage :
         Try(setPercentage(e.ret, percentage, e.w, ok), LAMBDA m :
            Return(api_message(req, "Response", "Alexa", PyNone,
                     [properties |->
                         <<Reading("percentage", "Alexa.PercentageController",
                                   PyInt(percentage))>>]),
                   m.w))))

SetPercentage(req, w, ok) ==
    IF "percentage" \notin DOMAIN req.payload THEN Raise(w)        \* KeyError
    ELSE Try(getEndpoint(w, req), LAMBDA e :
         Bind(IF req.payload.percentage < 0 THEN 0
              ELSE IF req.payload.percentage > 100 THEN 100
              ELSE req.payload.percentage, LAMBDA percentage :
         Try(setPercentage(e.ret, percentage, e.w, ok), LAMBDA m :
            Return(api_message(req, "Response", "Alexa", PyNone,
                     [properties |->
                         <<Reading("percentage", "Alexa.PercentageController",
                                   PyInt(percentage))>>]),
                   m.w))))

\* no endpoint class has a lock or unlock method: hasattr(endpoint, 'lock') is False
Lock(req, w, ok) ==
    Try(getEndpoint(w, req), LAMBDA e :
        Return(api_message(req, "Response", "Alexa", PyNone,
                 [properties |->
                     <<Reading("lockState", "Alexa.LockController", PyStr("LOCKED"))>>]),
               e.w))

Unlock(req, w, ok) ==
    Try(getEndpoint(w, req), LAMBDA e :
        Return(api_message(req, "Response", "Alexa", PyNone,
                 [properties |->
                     <<Reading("lockState", "Alexa.LockController", PyStr("UNLOCKED"))>>]),
               e.w))

\* temperature_from_object without the Kelvin offset
temperature_from_object_NoKelvin(temp_obj) ==
    IF temp_obj.scale = "FAHRENHEIT" THEN ((temp_obj.value - 3200) * 10) \div 18
    ELSE temp_obj.value

\* temperatures are in hundredths of a degree; the payloads used keep the
\* Fahrenheit division exact
temperature_from_object(temp_obj) ==
    IF temp_obj.scale = "FAHRENHEIT" THEN ((temp_obj.value - 3200) * 10) \div 18
    ELSE IF temp_obj.scale = "KELVIN" THEN temp_obj.value - 27315
    ELSE temp_obj.value

SetTargetTemperature(req, w, ok) ==
    Try(getEndpoint(w, req), LAMBDA e :
        IF "targetSetpoint" \notin DOMAIN req.payload
        THEN Raise(e.w)                                   \* temp is unbound
        ELSE
        Bind(temperature_from_object(req.payload.targetSetpoint), LAMBDA temp :
        Try(setTargetSetPoint(e.ret, temp, e.w, ok), LAMBDA m :
            Return(api_message(req, "Response", "Alexa", PyNone,
                     [properties |->
                         <<Reading("targetSetpoint", "Alexa.ThermostatController",
                                   [value |-> temp, scale |-> "CELSIUS"])>>]),
                   m.w))))

\* a bare str payload is [str |-> s]; the object form is [value |-> s]
SetThermostatMode(req, w, ok) ==
    IF "thermostatMode" \notin DOMAIN req.payload THEN Raise(w)    \* KeyError
    ELSE Bind(IF "str" \in DOMAIN req.payload.thermostatMode
              THEN req.payload.thermostatMode.str
              ELSE req.payload.thermostatMode.value, LAMBDA mode :
         Try(getEndpoint(w, req), LAMBDA e :
         Try(setThermostatMode(e.ret, mode, e.w, ok), LAMBDA m :
            Return(api_message(req, "Response", "Alexa", PyNone,
                     [properties |->
                         <<Reading("thermostatMode", "Alexa.ThermostatController",
                                   PyStr(mode))>>]),
                   m.w))))

\* the readings of all capabilities of ep, in capability order
RECURSIVE AllProperties(_, _, _, _)
AllProperties(caps, ep, w, ok) ==
    IF Len(caps) = 0 THEN <<>>
    ELSE serializeProperties(Head(caps), ep, w, ok) \o AllProperties(Tail(caps), ep, w, ok)

\* ReportState without the test for an unresolved device
ReportState_Unchecked(req, w, ok) ==
    Try(getEndpoint(w, req), LAMBDA e :
    Bind(DomoticzEndpoint_getDevice(e.ret, e.w, ok), LAMBDA g :
        Return(api_message(req, "StateReport", "Alexa", PyNone,
                 [properties |-> AllProperties(g.ep.capabilities, g.ep, g.w, ok)]),
               g.w)))

ReportState(req, w, ok) ==
    Try(getEndpoint(w, req), LAMBDA e :
    Bind(DomoticzEndpoint_getDevice(e.ret, e.w, ok), LAMBDA g :
        IF IsNone(g.dev)
        THEN Return(api_error(req, "ENDPOINT_UNREACHABLE", UNREACHABLE_MSG), g.w)
        ELSE Return(api_message(req, "StateReport", "Alexa", PyNone,
                      [properties |-> AllProperties(g.ep.capabilities, g.ep, g.w, ok)]),
                    g.w)))

SetColor(req, w, ok) ==
    IF "color" \notin DOMAIN req.payload THEN Raise(w)             \* KeyError
    ELSE Try(getEndpoint(w, req), LAMBDA e :
         Try(setColor(e.ret, req.payload.color.hue, req.payload.color.saturation,
                      req.payload.color.brightness, e.w, ok), LAMBDA m :
            Return(api_message(req, "Response", "Alexa", PyNone,
                     [properties |->
                         <<Reading("color", "Alexa.ColorController", req.payload.color)>>]),
                   m.w)))

SetColorTemperature(req, w, ok) ==
    IF "colorTemperatureInKelvin" \notin DOMAIN req.payload THEN Raise(w)
    ELSE Try(getEndpoint(w, req), LAMBDA e :
         Try(setColorTemperature(e.ret, req.payload.colorTemperatureInKelvin, e.w, ok),
             LAMBDA m :
            Return(api_message(req, "Response", "Alexa", PyNone,
                     [properties |->
                         <<Reading("colorTemperatureInKelvin",
                                   "Alexa.ColorTemperatureController",
                                   PyInt(req.payload.colorTemperatureInKelvin))>>]),
                   m.w)))

(***************************************************************************)
(* The router.                                                             *)
(***************************************************************************)

\* the classes nested in class Alexa, by the namespace that reaches them
HandlerGroups ==
    {"Alexa.Discovery", "Alexa.PowerController", "Alexa.BrightnessController",
     "Alexa.ColorController", "Alexa.ColorTemperatureController",
     "Alexa.SceneController", "Alexa.PercentageController", "Alexa.LockController",
     "Alexa.ThermostatController", "Alexa.ReportState"}

\* the directive operations each handler group declares
Operations(group) ==
    CASE group = "Alexa.Discovery"                  -> {"Discover"}
      [] group = "Alexa.PowerController"            -> {"TurnOn", "TurnOff"}
      [] group = "Alexa.BrightnessController"       -> {"SetBrightness", "AdjustBrightness"}
      [] group = "Alexa.ColorController"            -> {"SetColor"}
      [] group = "Alexa.ColorTemperatureController" -> {"SetColorTemperature"}
      [] group = "Alexa.SceneController"            -> {"Activate", "Deactivate"}
      [] group = "Alexa.PercentageController"       -> {"SetPercentage"}
      [] group = "Alexa.LockController"             -> {"Lock", "Unlock"}
      [] group = "Alexa.ThermostatController"       ->
            {"SetTargetTemperature", "SetThermostatMode"}
      [] group = "Alexa.ReportState"                -> {"ReportState"}
      [] OTHER -> {}

\* operator.attrgetter(name)(self)(request) on an instance of group: name is
\* an attribute path from the instance, so it reaches the directive
\* operations of the class, and through self.handler the handler's own
\* attributes.  Every other name of this model (an unknown attribute, the
\* two-argument invoke, the three-argument setbrightness, the non-callable
\* handler) raises AttributeError or TypeError.
CallByName(group, name, req, w, ok) ==
    IF name \in Operations(group) THEN
        CASE name = "Discover"             -> Discover(req, w, ok)
          [] name = "TurnOn"               -> TurnOn(req, w, ok)
          [] name = "TurnOff"              -> TurnOff(req, w, ok)
          [] name = "SetBrightness"        -> SetBrightness(req, w, ok)
          [] name = "AdjustBrightness"     -> AdjustBrightness(req, w, ok)
          [] name = "SetColor"             -> SetColor(req, w, ok)
          [] name = "SetColorTemperature"  -> SetColorTemperature(req, w, ok)
          [] name = "Activate"             -> Activate(req, w, ok)
          [] name = "Deactivate"           -> Deactivate(req, w, ok)
          [] name = "SetPercentage"        -> SetPercentage(req, w, ok)
          [] name = "Lock"                 -> Lock(req, w, ok)
          [] name = "Unlock"               -> Unlock(req, w, ok)
          [] name = "SetTargetTemperature" -> SetTargetTemperature(req, w, ok)
          [] name = "SetThermostatMode"    -> SetThermostatMode(req, w, ok)
          [] name = "ReportState"          -> ReportState(req, w, ok)
    ELSE IF name = "handler.configure"
    THEN Return(PyNone, [w EXCEPT !.config = req])        \* Domoticz.configure(request)
    ELSE IF name = "handler.devices.update"
    THEN Return(PyNone, [w EXCEPT !.devices = Update(@, req)])   \* dict.update(request)
    ELSE Raise(w)

\* AlexaSmartHomeCall.invoke(name, request)
AlexaSmartHomeCall_invoke(group, name, req, w, ok) ==
    Bind(CallByName(group, name, req, w, ok), LAMBDA r :
        IF r.raised
        THEN Return(api_error(req, "INTERNAL_ERROR", INTERNAL_MSG_REQUEST), r.w)
        ELSE r)

\* invoke(namespace, name, handler, request)
invoke(namespace, name, req, w, ok) ==
    LET ns == IF namespace = "Alexa" /\ name = "ReportState"
              THEN "Alexa.ReportState" ELSE namespace
    IN  IF ns \notin HandlerGroups
        THEN Return(api_error(req, "INTERNAL_ERROR", INTERNAL_MSG_DIRECTIVE), w)
        ELSE AlexaSmartHomeCall_invoke(ns, name, req, w, ok)

\* handle_message(handler, message), message['directive'] being req
handle_message(req, w, ok) ==
    invoke(req.header.namespace, req.header.name, req, w, ok)

(***************************************************************************)
(* The directives the model feeds the adapter.                             *)
(***************************************************************************)
CorrelationTokens == {"", "tok-1"}

EndpointIds ==
    {<<"SwitchLight", "1">>, <<"Blind", "2">>, <<"Thermostat", "3">>, <<"Scene", "1">>,
     <<"SwitchLight", "9">>,        \* no such device on the server
     <<"Bogus", "1">>}              \* no such endpoint class

BrightnessDeltas == {-60, 70}

Percentages == {-10, 40, 150}

ThermostatModes == {"heat"}

D(namespace, name, payload) == [namespace |-> namespace, name |-> name, payload |-> payload]

\* directives addressed to an endpoint
EndpointDirectives ==
    {D("Alexa.PowerController", "TurnOn", <<>>),
     D("Alexa.PowerController", "TurnOff", <<>>),
     D("Alexa.BrightnessController", "SetBrightness", [brightness |-> 30]),
     D("Alexa.ColorController", "SetColor",
       [color |-> [hue |-> 350, saturation |-> 72, brightness |-> 65]]),
     D("Alexa.ColorTemperatureController", "SetColorTemperature",
       [colorTemperatureInKelvin |-> 5000]),
     D("Alexa.SceneController", "Activate", <<>>),
     D("Alexa.SceneController", "Deactivate", <<>>),
     D("Alexa.LockController", "Lock", <<>>),
     D("Alexa.ThermostatController", "SetTargetTemperature",
       [targetSetpoint |-> [value |-> 2150, scale |-> "CELSIUS"]]),
     D("Alexa.ThermostatController", "SetTargetTemperature", <<>>),
     D("Alexa", "ReportState", <<>>),
     D("Alexa.ReportState", "ReportState", <<>>)}
    \cup {D("Alexa.BrightnessController", "AdjustBrightness", [brightnessDelta |-> d]) :
            d \in BrightnessDeltas}
    \cup {D("Alexa.PercentageController", "SetPercentage", [percentage |-> p]) :
            p \in Percentages}
    \cup {D("Alexa.ThermostatController", "SetThermostatMode", [thermostatMode |-> PyStr(m)]) :
            m \in ThermostatModes}
    \cup {D("Alexa.ThermostatController", "SetThermostatMode",
            [thermostatMode |-> [value |-> m]]) : m \in ThermostatModes}

\* directives whose handling never reads the endpoint reference: discovery,
\* and the (namespace, name) pairs that name no directive operation
RoutedDirectives ==
    {D("Alexa.Discovery", "Discover", <<>>),
     D("Alexa.Bogus", "TurnOn", <<>>),
     D("Alexa", "Discover", <<>>),
     D("Alexa.PowerController", "Toggle", <<>>),
     D("Alexa.PowerController", "invoke", <<>>),
     D("Alexa.BrightnessController", "setbrightness", [brightness |-> 30]),
     D("Alexa.PowerController", "handler", <<>>),
     D("Alexa.PowerController", "handler.configure", <<>>),
     D("Alexa.PowerController", "handler.devices.update", <<>>)}

\* message['directive'] for directive d, with the optional correlation token
\* tok (<<>> or <<t>>) and the optional endpoint reference ep (<<>> or <<id>>)
Directive(d, tok, ep) ==
    LET h0 == [namespace |-> d.namespace, name |-> d.name, payloadVersion |-> "3"]
        h  == IF Len(tok) = 1 THEN Put(h0, "correlationToken", tok[1]) ELSE h0
        r0 == [header |-> h, payload |-> d.payload]
    IN  IF Len(ep) = 1 THEN Put(r0, "endpoint", [endpointId |-> ep[1]]) ELSE r0

OptionalTokens == {<<>>} \cup {<<t>> : t \in CorrelationTokens}

\* target setpoints in the scales temperature_from_object converts, in
\* hundredths of a degree: 32 F, 68 F, 273.15 K, 293.15 K
TargetSetpoints ==
    {[value |-> 3200, scale |-> "FAHRENHEIT"], [value |-> 6800, scale |-> "FAHRENHEIT"],
     [value |-> 27315, scale |-> "KELVIN"], [value |-> 29315, scale |-> "KELVIN"]}

\* SetTargetTemperature for each of them, addressed to the thermostat
SetpointRequests ==
    {Directive(D("Alexa.ThermostatController", "SetTargetTemperature", [targetSetpoint |-> t]),
               <<>>, <<<<"Thermostat", "3">>>>) : t \in TargetSetpoints}

Requests ==
    {Directive(d, tok, ep) :
        d \in EndpointDirectives, tok \in OptionalTokens,
        ep \in {<<>>} \cup {<<id>> : id \in EndpointIds}}
    \cup {Directive(d, tok, <<>>) : d \in RoutedDirectives, tok \in OptionalTokens}
    \cup SetpointRequests

\* the configuration object the entry point hands to Domoticz.configure; one
\* without includeScenesGroups behaves as no configuration at all
Configs == {[obj |-> "Config", includeScenesGroups |-> TRUE]}

(***************************************************************************)
(* The state machine.                                                      *)
(***************************************************************************)
Init ==
    /\ devices = <<>>
    /\ config = PyNone
    /\ backend = InitBackend
    /\ pc = "idle"
    /\ request = PyNone
    /\ response = PyNone
    /\ calls = <<>>
    /\ up = TRUE
    /\ before = <<>>
    /\ enumerated = <<>>
    /\ nDirectives = 0

\* Domoticz.configure(config), called by the entry point on the fresh handler
Configure(c) ==
    /\ pc = "idle"
    /\ nDirectives = 0
    /\ config' = c
    /\ UNCHANGED <<devices, backend, pc, request, response, calls, up, before,
                   enumerated, nDirectives>>

\* handle_message(handler, message): one directive, routed and handled.
\* A server that does not answer shows only in a directive that calls it.
HandleMessage(req, ok) ==
    /\ pc = "idle"
    /\ nDirectives < MaxDirectives
    /\ \E o \in {handle_message(req,
                    [devices |-> devices, config |-> config, backend |-> backend,
                     calls |-> <<>>, eps |-> <<>>], ok)} :
           /\ ok \/ o.w.calls # <<>>
           /\ response' = o.ret
           /\ devices' = o.w.devices
           /\ config' = o.w.config
           /\ backend' = o.w.backend
           /\ calls' = o.w.calls
           /\ enumerated' = o.w.eps
    /\ request' = req
    /\ up' = ok
    /\ before' = devices
    /\ pc' = "done"
    /\ nDirectives' = nDirectives + 1

\* the response goes back to the caller; the next directive can arrive
Deliver ==
    /\ pc = "done"
    /\ pc' = "idle"
    /\ request' = PyNone
    /\ response' = PyNone
    /\ calls' = <<>>
    /\ up' = TRUE
    /\ before' = <<>>
    /\ enumerated' = <<>>
    /\ UNCHANGED <<devices, config, backend, nDirectives>>

Next ==
    \/ \E c \in Configs : Configure(c)
    \/ \E req \in Requests, ok \in BOOLEAN : HandleMessage(req, ok)
    \/ Deliver

Spec == Init /\ [][Next]_vars

(***************************************************************************)
(* The router and discovery against any backend adapter: handler is a      *)
(* parameter of handle_message, and Discover serializes whatever endpoint  *)
(* objects its getEndpoints() returns.  AdapterEndpointLists are the lists *)
(* of at most two endpoints built from the endpoint classes of the source, *)
(* the base classes included.                                              *)
(***************************************************************************)
AdapterEndpoints ==
    {AlexaEndpoint(<<"Bare", "1">>, "Bare", "", "Acme"),
     DomoticzEndpoint(<<"Plain", "2">>, "Plain", "", "Domoticz"),
     SwitchLightEndpoint(<<"SwitchLight", "1">>, "Lamp", "Light/Switch", "Domoticz"),
     ThermostatEndpoint(<<"Thermostat", "3">>, "Heating", "Thermostat", "Domoticz"),
     SceneEndpoint(<<"Scene", "1">>, "Evening", "Scene", "Domoticz")}

AdapterEndpointLists ==
    {<<>>} \cup {<<a>> : a \in AdapterEndpoints}
           \cup {<<a, b>> : a \in AdapterEndpoints, b \in AdapterEndpoints}

\* Alexa.Discovery.Discover with an adapter whose getEndpoints() returns eps
DiscoverWith(tok, eps) ==
    /\ pc = "idle"
    /\ nDirectives < MaxDirectives
    /\ LET req == Directive(D("Alexa.Discovery", "Discover", <<>>), tok, <<>>)
       IN  /\ request' = req
           /\ response' = DiscoverResponse(req, eps)
    /\ enumerated' = eps
    /\ calls' = <<>>
    /\ up' = TRUE
    /\ before' = devices
    /\ pc' = "done"
    /\ nDirectives' = nDirectives + 1
    /\ UNCHANGED <<devices, config, backend>>

NextCore ==
    \/ \E tok \in OptionalTokens, eps \in AdapterEndpointLists : DiscoverWith(tok, eps)
    \/ Deliver

SpecCore == Init /\ [][NextCore]_vars

(***************************************************************************)
(* Vocabulary of the properties.                                           *)
(***************************************************************************)
Done == pc = "done"

IsEnvelope(r) == "event" \in DOMAIN r

IsError(r, type) ==
    /\ IsEnvelope(r)
    /\ r.event.header.name = "ErrorResponse"
    /\ r.event.payload.type = type

\* the directive reaches operation name of handler group namespace
Routed(req, namespace, name) ==
    req.header.namespace = namespace /\ req.header.name = name

IsReportState(req) ==
    Routed(req, "Alexa", "ReportState") \/ Routed(req, "Alexa.ReportState", "ReportState")

\* the namespace names no handler group
NamespaceMiss(req) ==
    ~IsReportState(req) /\ req.header.namespace \notin HandlerGroups

\* the namespace names a handler group that declares no such operation
NameMiss(req) ==
    /\ ~IsReportState(req)
    /\ req.header.namespace \in HandlerGroups
    /\ req.header.name \notin Operations(req.header.namespace)

HasEndpointId(req) ==
    "endpoint" \in DOMAIN req /\ "endpointId" \in DOMAIN req.endpoint

\* the endpoint reference resolves to an endpoint class
EndpointResolvable(req) ==
    /\ HasEndpointId(req)
    /\ Len(req.endpoint.endpointId) >= 2
    /\ req.endpoint.endpointId[1] \in ENDPOINT_ADAPTERS

OnClass(req, class) ==
    EndpointResolvable(req) /\ req.endpoint.endpointId[1] = class

\* the properties list of a response that carries one
Properties(r) == r.context.properties

HasProperties(r) ==
    IsEnvelope(r) /\ "context" \in DOMAIN r /\ "properties" \in DOMAIN r.context

(***************************************************************************)
(* C1.  Every directive gets an envelope back, and a directive whose       *)
(* namespace names no handler group, whose name names no operation of the  *)
(* group, or whose operation raises (unknown endpoint class, endpoint      *)
(* without the requested mutation) gets an ErrorResponse of type           *)
(* INTERNAL_ERROR.  The code does not keep this: a name is an attribute    *)
(* path, and "handler.configure" is called and returns None.               *)
(***************************************************************************)

\* the endpoint method each mutation directive calls
MutationOf(name) ==
    CASE name = "TurnOn"               -> "turnOn"
      [] name = "TurnOff"              -> "turnOff"
      [] name = "SetBrightness"        -> "setBrightness"
      [] name = "AdjustBrightness"     -> "setBrightness"
      [] name = "SetColor"             -> "setColor"
      [] name = "SetColorTemperature"  -> "setColorTemperature"
      [] name = "Activate"             -> "activate"
      [] name = "Deactivate"           -> "deactivate"
      [] name = "SetPercentage"        -> "setPercentage"
      [] name = "SetThermostatMode"    -> "setThermostatMode"
      [] OTHER -> "none"

\* the directive reaches an operation, and that operation raises because the
\* endpoint class is unknown or the endpoint lacks the mutation
OperationRaises(req) ==
    /\ ~IsReportState(req)
    /\ req.header.namespace \in HandlerGroups
    /\ req.header.name \in Operations(req.header.namespace)
    /\ req.header.name # "Discover"
    /\ \/ HasEndpointId(req) /\ ~EndpointResolvable(req)
       \/ /\ EndpointResolvable(req)
          /\ MutationOf(req.header.name) # "none"
          /\ MutationOf(req.header.name) \notin EndpointMethods(req.endpoint.endpointId[1])

\* C1 as claimed: always an envelope, INTERNAL_ERROR on every routing miss
\* and on every raising operation
C1_AlwaysEnvelope ==
    Done =>
        /\ IsEnvelope(response)
        /\ (NamespaceMiss(request) \/ NameMiss(request) \/ OperationRaises(request))
              => IsError(response, "INTERNAL_ERROR")

(***************************************************************************)
(* C2.  The envelope echoes the request's correlation token.  As claimed   *)
(* (C2_TokenEchoed) it fails on a request that carries an empty token;     *)
(* as amended (C2_TruthyTokenEchoed): a non-empty token is echoed on the   *)
(* success and the error paths alike, and the key is absent when the       *)
(* request carries no token or an empty one.                               *)
(***************************************************************************)
CarriesToken(req) == "correlationToken" \in DOMAIN req.header

EchoesToken(r) == "correlationToken" \in DOMAIN r.event.header

\* C2 as claimed: a carried token is echoed, a missing one is not
C2_TokenEchoed ==
    (Done /\ IsEnvelope(response)) =>
        IF CarriesToken(request)
        THEN EchoesToken(response)
             /\ response.event.header.correlationToken = request.header.correlationToken
        ELSE ~EchoesToken(response)

\* C2 as amended: a non-empty token is echoed; no token or an empty token
\* leaves the key out of the returned header
C2_TruthyTokenEchoed ==
    (Done /\ IsEnvelope(response)) =>
        IF CarriesToken(request) /\ request.header.correlationToken # ""
        THEN EchoesToken(response)
             /\ response.event.header.correlationToken = request.header.correlationToken
        ELSE ~EchoesToken(response)

\* an error envelope that echoes the token of its request
C2_Witness ==
    /\ Done
    /\ IsError(response, "INTERNAL_ERROR")
    /\ CarriesToken(request)
    /\ EchoesToken(response)
    /\ response.event.header.correlationToken = "tok-1"

(***************************************************************************)
(* C3.  ReportState for an endpoint whose device record cannot be          *)
(* resolved (not in the cache when the directive arrives, and the server   *)
(* does not answer or has no record for it) returns an ErrorResponse of    *)
(* type ENDPOINT_UNREACHABLE, never a StateReport.                         *)
(***************************************************************************)

\* the idx Domoticz.getDevice looks up for the request's endpoint
DeviceIdx(req) == req.endpoint.endpointId[Len(req.endpoint.endpointId)]

\* nothing cached under the idx, and the fetch brings nothing
DeviceUnresolvable(req) ==
    /\ DeviceIdx(req) \notin DOMAIN before
    /\ \/ ~up
       \/ IF req.endpoint.endpointId[1] = "Scene"
          THEN DeviceIdx(req) \notin DOMAIN backend.scenes
          ELSE DeviceIdx(req) \notin DOMAIN backend.devices

C3_UnresolvedDeviceUnreachable ==
    (Done /\ IsReportState(request) /\ EndpointResolvable(request)
          /\ DeviceUnresolvable(request))
        => IsError(response, "ENDPOINT_UNREACHABLE")

\* ReportState with the server down and nothing cached was answered
\* ENDPOINT_UNREACHABLE
C3_Witness ==
    /\ Done
    /\ IsReportState(request)
    /\ EndpointResolvable(request)
    /\ DeviceUnresolvable(request)
    /\ ~up
    /\ IsError(response, "ENDPOINT_UNREACHABLE")

(***************************************************************************)
(* C4.  AdjustBrightness hands the backend, and reports, a brightness in   *)
(* [0, 100] whatever the delta.  The code adds the delta and clamps        *)
(* nothing, so this is violated.                                           *)
(***************************************************************************)
C4_AdjustedBrightnessInRange ==
    (Done /\ Routed(request, "Alexa.BrightnessController", "AdjustBrightness")) =>
        /\ \A i \in 1..Len(calls) :
              "level" \in DOMAIN calls[i] => calls[i].level \in 0..100
        /\ HasProperties(response) =>
              \A i \in 1..Len(Properties(response)) :
                  Properties(response)[i].name = "brightness"
                      => Properties(response)[i].value.int \in 0..100

(***************************************************************************)
(* C5.  SetPercentage with payload p on a blind endpoint issues exactly    *)
(* one backend call, Set Level with min(100, max(0, p)), and its response  *)
(* carries exactly one reading, percentage, with that same clamped value.  *)
(***************************************************************************)
Clamp(p) == Min(100, Max(0, p))

C5_SetPercentageClamped ==
    (Done /\ Routed(request, "Alexa.PercentageController", "SetPercentage")
          /\ OnClass(request, "Blind")) =>
        LET c == Clamp(request.payload.percentage)
        IN  /\ calls = <<[param |-> "switchlight", idx |-> DeviceIdx(request),
                          switchcmd |-> "Set Level", level |-> c]>>
            /\ HasProperties(response)
            /\ response.event.header.name = "Response"
            /\ Properties(response) =
                  <<Reading("percentage", "Alexa.PercentageController", PyInt(c))>>

\* SetPercentage 150 on a blind: level 100 to the backend, 100 reported
C5_Witness ==
    /\ Done
    /\ Routed(request, "Alexa.PercentageController", "SetPercentage")
    /\ OnClass(request, "Blind")
    /\ request.payload.percentage = 150
    /\ Len(calls) = 1 /\ calls[1].level = 100
    /\ HasProperties(response)
    /\ Properties(response)[1].value = PyInt(100)

(***************************************************************************)
(* C6.  TurnOn on a switch endpoint returns a Response with exactly one    *)
(* reading, powerState of Alexa.PowerController with value "ON"; TurnOff   *)
(* likewise with value "OFF".                                              *)
(***************************************************************************)
C6_PowerStateReading ==
    /\ (Done /\ Routed(request, "Alexa.PowerController", "TurnOn")
             /\ OnClass(request, "SwitchLight")) =>
           /\ HasProperties(response)
           /\ response.event.header.name = "Response"
           /\ Properties(response) =
                 <<Reading("powerState", "Alexa.PowerController", PyStr("ON"))>>
    /\ (Done /\ Routed(request, "Alexa.PowerController", "TurnOff")
             /\ OnClass(request, "SwitchLight")) =>
           /\ HasProperties(response)
           /\ response.event.header.name = "Response"
           /\ Properties(response) =
                 <<Reading("powerState", "Alexa.PowerController", PyStr("OFF"))>>

\* TurnOff on the switch was answered with one powerState reading "OFF"
C6_Witness ==
    /\ Done
    /\ Routed(request, "Alexa.PowerController", "TurnOff")
    /\ OnClass(request, "SwitchLight")
    /\ HasProperties(response)
    /\ Len(Properties(response)) = 1
    /\ Properties(response)[1].value = PyStr("OFF")

(***************************************************************************)
(* C7.  SetThermostatMode with a lower-case mode, bare or as {"value":..}, *)
(* reports the normalised upper-case mode in its thermostatMode reading.   *)
(* The code upper-cases the mode only to look the level up, and reports    *)
(* the mode as it arrived, so this is violated (with the thermostat's      *)
(* record in the cache, without which the directive fails altogether).     *)
(***************************************************************************)
RequestedMode(req) ==
    IF "str" \in DOMAIN req.payload.thermostatMode
    THEN req.payload.thermostatMode.str
    ELSE req.payload.thermostatMode.value

C7_ModeReportedNormalised ==
    (Done /\ Routed(request, "Alexa.ThermostatController", "SetThermostatMode")
          /\ OnClass(request, "Thermostat")
          /\ DeviceIdx(request) \in DOMAIN before) =>
        /\ HasProperties(response)
        /\ Properties(response) =
              <<Reading("thermostatMode", "Alexa.ThermostatController",
                        PyStr(Upper(RequestedMode(request))))>>

(***************************************************************************)
(* C8.  Discover drops every endpoint that has no capability besides the   *)
(* implicit identity capability 'Alexa', so every endpoint it exposes has  *)
(* another capability.  The code tests the capability list for emptiness,  *)
(* which the identity capability rules out, so an endpoint with that       *)
(* capability alone is exposed.                                            *)
(***************************************************************************)
HasEffectiveCapability(capabilities, nameOf(_)) ==
    \E i \in 1..Len(capabilities) : nameOf(capabilities[i]) # "Alexa"

C9_UnresolvedEndpointUnreachable ==
    (Done /\ IsReportState(request) /\ ~EndpointResolvable(request))
        => IsError(response, "ENDPOINT_UNREACHABLE")

(***************************************************************************)
(* C10.  Every reading of a StateReport has a value that is not None and   *)
(* names a property that a capability of the resolved endpoint declares;   *)
(* a declared property whose getProperty is None is not in the list.       *)
(***************************************************************************)

\* the endpoint ReportState resolved, and the device record behind it
ReportedEndpoint(req) ==
    NewEndpoint(req.endpoint.endpointId[1], req.endpoint.endpointId, "", "", "Domoticz")

ReportedDevice(req) == devices[DeviceIdx(req)]

C10_StateReportReadings ==
    (Done /\ IsEnvelope(response) /\ response.event.header.name = "StateReport") =>
        LET caps == ReportedEndpoint(request).capabilities
            d    == ReportedDevice(request)
            rs   == Properties(response)
        IN  /\ \A i \in 1..Len(rs) :
                  /\ ~IsNone(rs[i].value)
                  /\ \E c \in 1..Len(caps) :
                        /\ caps[c].name = rs[i].namespace
                        /\ \E k \in 1..Len(propertiesSupported(caps[c])) :
                              propertiesSupported(caps[c])[k].name = rs[i].name
            /\ \A c \in 1..Len(caps) :
                  \A k \in 1..Len(propertiesSupported(caps[c])) :
                      IsNone(PropertyOf(d, propertiesSupported(caps[c])[k].name))
                          => \A i \in 1..Len(rs) :
                                rs[i].name # propertiesSupported(caps[c])[k].name

\* a StateReport of the thermostat, whose record has no Temp: the setpoint
\* is reported and the temperature is left out
C10_Witness ==
    /\ Done
    /\ IsEnvelope(response)
    /\ response.event.header.name = "StateReport"
    /\ OnClass(request, "Thermostat")
    /\ IsNone(PropertyOf(ReportedDevice(request), "temperature"))
    /\ \E i \in 1..Len(Properties(response)) :
          Properties(response)[i].name = "targetSetpoint"
    /\ \A i \in 1..Len(Properties(response)) :
          Properties(response)[i].name # "temperature"

(***************************************************************************)
(* C11.  A mutation directive whose backend call fails (the server does    *)
(* not answer) still returns its success response with the requested       *)
(* value: Domoticz.api swallows the failure, and no handler reads what it  *)
(* returns.                                                                *)
(***************************************************************************)
FireAndForget ==
    {"TurnOn", "TurnOff", "SetBrightness", "SetPercentage", "SetColor",
     "SetColorTemperature", "SetTargetTemperature", "Activate", "Deactivate"}

\* the endpoint method a fire-and-forget directive calls
BackendMutation(name) ==
    IF name = "SetTargetTemperature" THEN "setTargetSetPoint" ELSE MutationOf(name)

\* the directive reaches its operation, with the payload the operation reads,
\* on an endpoint whose class has the mutation
MutationApplies(req) ==
    /\ req.header.namespace \in HandlerGroups
    /\ req.header.name \in Operations(req.header.namespace)
    /\ req.header.name \in FireAndForget
    /\ EndpointResolvable(req)
    /\ BackendMutation(req.header.name) \in EndpointMethods(req.endpoint.endpointId[1])
    /\ req.header.name = "SetTargetTemperature" => "targetSetpoint" \in DOMAIN req.payload

\* a temperature in Celsius, in hundredths: (v - 32) / 1.8 for Fahrenheit,
\* v - 273.15 for Kelvin, v itself for Celsius
CelsiusOf(t) ==
    CASE t.scale = "CELSIUS"    -> t.value
      [] t.scale = "FAHRENHEIT" -> ((t.value - 3200) * 5) \div 9
      [] t.scale = "KELVIN"     -> t.value - 27315

\* the readings that report what the directive asked for
RequestedReadings(req) ==
    CASE req.header.name = "TurnOn" ->
            <<Reading("powerState", "Alexa.PowerController", PyStr("ON"))>>
      [] req.header.name = "TurnOff" ->
            <<Reading("powerState", "Alexa.PowerController", PyStr("OFF"))>>
      [] req.header.name = "SetBrightness" ->
            <<Reading("brightness", "Alexa.BrightnessController",
                      PyInt(req.payload.brightness))>>
      [] req.header.name = "SetPercentage" ->
            <<Reading("percentage", "Alexa.PercentageController",
                      PyInt(Clamp(req.payload.percentage)))>>
      [] req.header.name = "SetColor" ->
            <<Reading("color", "Alexa.ColorController", req.payload.color)>>
      [] req.header.name = "SetColorTemperature" ->
            <<Reading("colorTemperatureInKelvin", "Alexa.ColorTemperatureController",
                      PyInt(req.payload.colorTemperatureInKelvin))>>
      [] req.header.name = "SetTargetTemperature" ->
            <<Reading("targetSetpoint", "Alexa.ThermostatController",
                      [value |-> CelsiusOf(req.payload.targetSetpoint), scale |-> "CELSIUS"])>>
      [] OTHER -> <<>>

C11_BackendFailureStillSuccess ==
    (Done /\ ~up /\ MutationApplies(request)) =>
        /\ Len(calls) = 1
        /\ IsEnvelope(response)
        /\ CASE request.header.name = "Activate" ->
                    response.event.header.name = "ActivationStarted"
             [] request.header.name = "Deactivate" ->
                    response.event.header.name = "DeactivationStarted"
             [] OTHER ->
                    /\ response.event.header.name = "Response"
                    /\ HasProperties(response)
                    /\ Properties(response) = RequestedReadings(request)

\* TurnOn on the switch with the server down: one call issued, the server
\* unchanged, and the response reports ON
C11_Witness ==
    /\ Done
    /\ ~up
    /\ Routed(request, "Alexa.PowerController", "TurnOn")
    /\ OnClass(request, "SwitchLight")
    /\ Len(calls) = 1
    /\ backend.devices["1"].Status = "Off"
    /\ HasProperties(response)
    /\ Properties(response) = <<Reading("powerState", "Alexa.PowerController", PyStr("ON"))>>

(***************************************************************************)
(* C12.  SetTargetTemperature on the thermostat hands the backend, and     *)
(* reports with scale CELSIUS, the target setpoint in Celsius: a Celsius   *)
(* value unchanged, a Fahrenheit value v as (v - 32) / 1.8, a Kelvin value *)
(* v as v - 273.15; 32 F and 273.15 K both give 0.                         *)
(***************************************************************************)
SetsTarget(req) ==
    /\ Routed(req, "Alexa.ThermostatController", "SetTargetTemperature")
    /\ OnClass(req, "Thermostat")
    /\ "targetSetpoint" \in DOMAIN req.payload

C12_SetpointNormalisedToCelsius ==
    (Done /\ SetsTarget(request)) =>
        LET t == request.payload.targetSetpoint
            c == CelsiusOf(t)
        IN  /\ calls = <<[param |-> "setsetpoint", idx |-> DeviceIdx(request),
                          setpoint |-> c]>>
            /\ HasProperties(response)
            /\ Properties(response) =
                  <<Reading("targetSetpoint", "Alexa.ThermostatController",
                            [value |-> c, scale |-> "CELSIUS"])>>
            /\ t.scale = "CELSIUS" => c = t.value
            /\ t = [value |-> 3200, scale |-> "FAHRENHEIT"] => c = 0
            /\ t = [value |-> 27315, scale |-> "KELVIN"] => c = 0

\* 293.15 K was handed to the backend, and reported, as 20.00 degrees Celsius
C12_Witness ==
    /\ Done
    /\ SetsTarget(request)
    /\ request.payload.targetSetpoint = [value |-> 29315, scale |-> "KELVIN"]
    /\ Len(calls) = 1
    /\ calls[1].setpoint = 2000
    /\ HasProperties(response)
    /\ Properties(response)[1].value = [value |-> 2000, scale |-> "CELSIUS"]

(***************************************************************************)
(* C13.  AdjustBrightness takes 50 as its baseline only when the current   *)
(* brightness is unknown (no device record could be resolved); a known     *)
(* brightness, 0 included, is the baseline itself.  The code writes        *)
(* getProperty('brightness') or 50, and 0 is falsy, so a known brightness  *)
(* of 0 is replaced by 50.                                                 *)
(***************************************************************************)
AdjustsBrightness(req) ==
    /\ Routed(req, "Alexa.BrightnessController", "AdjustBrightness")
    /\ OnClass(req, "SwitchLight")

\* the brightness known for the request's endpoint: the Level of the record
\* the directive resolved, which stays in the cache
KnownBrightness(req) ==
    IF DeviceIdx(req) \in DOMAIN devices
    THEN PyInt(Get(devices[DeviceIdx(req)], "Level", 0))
    ELSE PyNone

C13_BaselineOnlyWhenUnknown ==
    (Done /\ AdjustsBrightness(request)) =>
        LET known    == KnownBrightness(request)
            baseline == IF IsNone(known) THEN 50 ELSE known.int
        IN  \E i \in 1..Len(calls) :
                /\ calls[i].param = "switchlight"
                /\ "level" \in DOMAIN calls[i]
                /\ calls[i].level = baseline + request.payload.brightnessDelta

(***************************************************************************)
(* C14.  The capability names of an endpoint are pairwise distinct, for    *)
(* every endpoint getEndpoints builds for discovery (the light with the    *)
(* colour capabilities included) and for the endpoint getEndpoint builds   *)
(* for a directive.                                                        *)
(***************************************************************************)
DistinctNames(capabilities) ==
    \A i, j \in 1..Len(capabilities) :
        i # j => capabilities[i].name # capabilities[j].name

\* the endpoint getEndpoint built for the directive just handled
DirectiveEndpoint(req) == getEndpoint([devices |-> before], req).ret

C14_CapabilityNamesDistinct ==
    Done =>
        /\ \A n \in 1..Len(enumerated) : DistinctNames(enumerated[n].capabilities)
        /\ (~Routed(request, "Alexa.Discovery", "Discover") /\ EndpointResolvable(request))
              => DistinctNames(DirectiveEndpoint(request).capabilities)

\* discovery built the colour light: five capabilities, all named apart
C14_Witness ==
    /\ Done
    /\ \E n \in 1..Len(enumerated) :
          /\ enumerated[n].endpointId = <<"SwitchLight", "1">>
          /\ Len(enumerated[n].capabilities) = 5
          /\ \E i \in 1..5 :
                enumerated[n].capabilities[i].name = "Alexa.ColorTemperatureController"
          /\ DistinctNames(enumerated[n].capabilities)

(***************************************************************************)
(* C15.  A header name that is not a declared operation of the handler     *)
(* group ('Toggle', 'invoke', 'setbrightness', 'handler', or a dotted path *)
(* such as 'handler.configure' and 'handler.devices.update') gets an       *)
(* INTERNAL_ERROR ErrorResponse, leaves the configuration and the device   *)
(* cache as they were, and issues no backend request.  The code resolves   *)
(* the name with operator.attrgetter, which follows dotted paths:          *)
(* 'handler.configure' overwrites the configuration with the request and   *)
(* 'handler.devices.update' merges the request into the device cache, and  *)
(* both return None.                                                       *)
(***************************************************************************)
C15_OnlyDeclaredOperations ==
    [][(pc = "idle" /\ pc' = "done" /\ NameMiss(request')) =>
          /\ IsError(response', "INTERNAL_ERROR")
          /\ config' = config
          /\ devices' = devices
          /\ calls' = <<>>]_vars

(***************************************************************************)
(* C16.  The device cache changes in two ways only.  Discovery replaces    *)
(* it with what the server enumerates.  Any other directive leaves every   *)
(* cached record as it was and adds at most the record of the identifier   *)
(* it addresses, and that only on a cache miss; on a cache hit nothing is  *)
(* fetched and the cache is unchanged.  The code breaks this twice: a      *)
(* miss on a scene identifier loads every scene of the server into the     *)
(* cache, and the dotted name 'handler.devices.update' (see C15) merges    *)
(* the request into it.                                                    *)
(***************************************************************************)
IsFetch(q) == q.param \in {"getdevices", "getscenes"}

\* the cache holds exactly what the server enumerates: its devices, and its
\* scenes when the configuration includes them
CacheIsEnumeration ==
    /\ DOMAIN devices =
          DOMAIN backend.devices
            \cup (IF includeScenesGroups(config) THEN DOMAIN backend.scenes ELSE {})
    /\ \A k \in DOMAIN devices :
          \/ k \in DOMAIN backend.devices /\ devices[k] = backend.devices[k]
          \/ /\ includeScenesGroups(config)
             /\ k \in DOMAIN backend.scenes
             /\ devices[k] = backend.scenes[k]

C16_CacheChangesTwoWays ==
    Done =>
        IF Routed(request, "Alexa.Discovery", "Discover")
        THEN up => CacheIsEnumeration
        ELSE /\ \A k \in DOMAIN before : k \in DOMAIN devices /\ devices[k] = before[k]
             /\ DOMAIN devices \ DOMAIN before \subseteq
                   (IF HasEndpointId(request) THEN {DeviceIdx(request)} ELSE {})
             /\ (HasEndpointId(request) /\ DeviceIdx(request) \in DOMAIN before) =>
                   /\ devices = before
                   /\ \A i \in 1..Len(calls) : ~IsFetch(calls[i])

(***************************************************************************)
(* C17.  After a mutation directive answered with a success response that  *)
(* reports value v for a property, and the server applied the command, a   *)
(* ReportState for the same endpoint handled next reports v for that       *)
(* property.  Checked for the properties the server keeps per device:      *)
(* powerState and brightness of a switch, percentage of a blind,           *)
(* targetSetpoint of a thermostat.  The code serves ReportState from the   *)
(* cached record, which no mutation updates, so a cached endpoint reports  *)
(* the value from before the mutation.                                     *)
(***************************************************************************)
ReportsBack(req) ==
    /\ MutationApplies(req)
    /\ \/ req.header.name \in {"TurnOn", "TurnOff", "SetBrightness"}
             /\ OnClass(req, "SwitchLight")
       \/ req.header.name = "SetPercentage" /\ OnClass(req, "Blind")
       \/ req.header.name = "SetTargetTemperature" /\ OnClass(req, "Thermostat")
    /\ DeviceIdx(req) \in DOMAIN backend.devices

\* the response to ReportState for the endpoint of req, handled next with
\* the server up
NextReport(req) ==
    handle_message(
        Directive(D("Alexa", "ReportState", <<>>), <<>>, <<req.endpoint.endpointId>>),
        [devices |-> devices, config |-> config, backend |-> backend,
         calls |-> <<>>, eps |-> <<>>],
        TRUE).ret

\* every reading of r is among the readings of report
ReadingsAgree(r, report) ==
    /\ HasProperties(report)
    /\ \A i \in 1..Len(Properties(r)) :
          \E j \in 1..Len(Properties(report)) :
              /\ Properties(report)[j].name = Properties(r)[i].name
              /\ Properties(report)[j].namespace = Properties(r)[i].namespace
              /\ Properties(report)[j].value = Properties(r)[i].value

C17_ReportStateAfterMutation ==
    (Done /\ up /\ ReportsBack(request) /\ HasProperties(response)) =>
        ReadingsAgree(response, NextReport(request))

(***************************************************************************)
(* C18.  For every endpoint discovery advertises, the endpoint getEndpoint *)
(* builds from the advertised endpoint id has the same set of capability   *)
(* names.  The code adds the colour capabilities of an RGB light in        *)
(* getEndpoints only, so the endpoint built for a directive lacks them.    *)
(***************************************************************************)
CapabilityNames(ep) == {ep.capabilities[i].name : i \in 1..Len(ep.capabilities)}

\* the endpoint getEndpoint builds for a directive addressed to endpointId
EndpointForDirective(endpointId) ==
    getEndpoint([devices |-> devices], [endpoint |-> [endpointId |-> endpointId]]).ret

C18_SameCapabilitiesAsAdvertised ==
    (Done /\ Routed(request, "Alexa.Discovery", "Discover")) =>
        \A n \in 1..Len(enumerated) :
            CapabilityNames(EndpointForDirective(enumerated[n].endpointId))
                = CapabilityNames(enumerated[n])

(***************************************************************************)
(* C19.  The record resolved for an endpoint id is the record of the       *)
(* server entity of that id's kind (scene or device) and index.  When a    *)
(* scene and a device share an index, discovery enumerates an endpoint for *)
(* each, and the record of one is never resolved for the id of the other.  *)
(* The code keys the cache by index alone: loading the scenes overwrites   *)
(* the devices of the same index, and a record cached for one kind is a    *)
(* cache hit for the other.                                                *)
(***************************************************************************)
IsSceneRecord(d) == Get(d, "Type", "") \in {"Scene", "Group"}

\* discovery enumerated an endpoint of the right kind for every entity
EnumeratesEach ==
    /\ \A k \in DOMAIN backend.devices :
          \E n \in 1..Len(enumerated) :
              /\ enumerated[n].endpointId[1] # "Scene"
              /\ enumerated[n].endpointId[2] = k
    /\ includeScenesGroups(config) =>
          \A k \in DOMAIN backend.scenes :
              \E n \in 1..Len(enumerated) : enumerated[n].endpointId = <<"Scene", k>>

C19_RecordOfTheRightKind ==
    /\ (Done /\ up /\ Routed(request, "Alexa.Discovery", "Discover")) => EnumeratesEach
    /\ (Done /\ IsReportState(request) /\ EndpointResolvable(request)
             /\ DeviceIdx(request) \in DOMAIN devices) =>
           (IsSceneRecord(devices[DeviceIdx(request)]) <=> OnClass(request, "Scene"))

====
